---- MODULE Spec2Model ----
(***************************************************************************)
(* A model of http-epub: the URL normaliser and page/image fetcher         *)
(* (src/src/fetch.rs), the extraction pipeline (src/src/extract.rs) and    *)
(* the packager (src/src/epub.rs).                                         *)
(***************************************************************************)
EXTENDS Integers, Sequences, FiniteSets, TLC

\* ------------------------------------------------------------------------
\* Bounds of the model
\* ------------------------------------------------------------------------
\* Longest host, in labels, of a URL handed to the normaliser.
MaxLabels == 4
\* Longest query string, in '&'-separated parameters, of an input URL.
MaxQuery == 1
\* How many times in a row the normaliser is applied to its own output.
MaxApply == 2

\* Highest counter among the files present before the first conversion.
MaxCounter == 1
\* How many conversions are run one after the other.
MaxRuns == 2
\* Most <img> elements in the article of a page.
MaxImgs == 2
\* Most child nodes of a <video> element.
MaxChildren == 2
\* Most nodes of a document handed to convert_video_tags_to_links.
MaxNodes == 2
\* Most <meta> elements in the <head> of a page.
MaxMeta == 2
\* Most URLs given to one call of download_image_list
MaxList == 2

VARIABLES
    norm_trace,  \* <<u, n(u), n(n(u)), ...>>: a URL and its successive normalisations
    fs,          \* the output directory: path -> content of the file there
    runs,        \* how many times create_epub has been called
    ep,          \* per invocation of create_epub: its locals and its position
    proc,        \* Extractor::process: its locals and its position
    net,         \* what the servers answered: the page, and each image URL
    document     \* a DomDocument: the HTML it was parsed from, and its nodes

vars == <<norm_trace, fs, runs, ep, proc, net, document>>

\* What create_epub leaves alone, and what the normaliser leaves alone.
not_epub == <<norm_trace, proc, net, document>>
not_norm == <<fs, runs, ep, proc, net, document>>
not_proc == <<norm_trace, fs, runs, ep, document>>
not_document == <<norm_trace, fs, runs, ep, proc, net>>

\* Option<T>: None is <<>>, Some(x) is <<x>>.
None == <<>>
Some(x) == <<x>>
IsSome(o) == o # <<>>

\* ------------------------------------------------------------------------
\* URLs (url::Url as the code uses it)
\* ------------------------------------------------------------------------
\* A host is its sequence of dot-separated labels: <<"en","wikipedia","org">>.
Labels == {"en", "fr", "m", "wikipedia", "org", "medium", "nytimes",
           "washingtonpost", "com"}

RECURSIVE SeqsUpTo(_, _)
\* All sequences over S of length 0..n.
SeqsUpTo(S, n) ==
    IF n = 0 THEN {<<>>}
    ELSE LET shorter == SeqsUpTo(S, n - 1)
         IN  shorter \cup {Append(s, x) : s \in {t \in shorter : Len(t) = n - 1}, x \in S}

Hosts == {h \in SeqsUpTo(Labels, MaxLabels) : Len(h) >= 2}

\* A query string is the non-empty sequence of its '&'-separated parameters
\* ("" is <<"">>, "a=1&print=true" is <<"a=1","print=true">>); Url::query()
\* returning None is NoQuery.
NoQuery == <<>>
QueryParams == {"", "a=1", "print=true"}
Queries == SeqsUpTo(QueryParams, MaxQuery)

PageUrls == [host : Hosts, dir : {"x"}, query : Queries]

\* str::contains on a host, for the two-label patterns the code looks for
\* ("wikipedia.org", "medium.com", ...): label a directly followed by label b.
\* No label of Labels has another as a proper suffix or prefix, so the
\* substring match is a match of whole labels.
HostContains(host, a, b) ==
    \E i \in 1..(Len(host) - 1) : host[i] = a /\ host[i + 1] = b

\* host.contains(".m."): a label "m" with a dot on both sides.
HostHasMobileMarker(host) ==
    \E i \in 2..(Len(host) - 1) : host[i] = "m"

\* get_print_friendly_url without the `!host.contains(".m.")` test of the
\* wikipedia branch: "m." is inserted even when the host is already mobile.
get_print_friendly_url_NoMobileTest(url) ==
    LET host == url.host IN
    IF HostContains(host, "wikipedia", "org") THEN
        IF host[1] = "en" /\ Len(host) >= 2 THEN
            [url EXCEPT !.host = <<"en", "m", "wikipedia", "org">>]
        ELSE [url EXCEPT !.host = <<host[1], "m">> \o Tail(host)]
    ELSE IF HostContains(host, "medium", "com") THEN
        [url EXCEPT !.query = <<"format=print">>]
    ELSE IF HostContains(host, "nytimes", "com")
            \/ HostContains(host, "washingtonpost", "com") THEN
        IF url.query # NoQuery
        THEN [url EXCEPT !.query = Append(url.query, "print=true")]
        ELSE [url EXCEPT !.query = <<"print=true">>]
    ELSE url

\* get_print_friendly_url with `if` in place of each `else if` and no early
\* return: every rule whose pattern the host contains is applied, in order.
get_print_friendly_url_EveryMatchingRule(url) ==
    LET host == url.host
        after_wikipedia ==
            IF ~HostContains(host, "wikipedia", "org") THEN url
            ELSE IF host[1] = "en" /\ Len(host) >= 2 THEN
                [url EXCEPT !.host = <<"en", "m", "wikipedia", "org">>]
            ELSE IF ~HostHasMobileMarker(host) /\ Len(host) >= 2 THEN
                [url EXCEPT !.host = <<host[1], "m">> \o Tail(host)]
            ELSE url
        after_medium ==
            IF HostContains(host, "medium", "com")
            THEN [after_wikipedia EXCEPT !.query = <<"format=print">>]
            ELSE after_wikipedia
    IN  IF HostContains(host, "nytimes", "com")
           \/ HostContains(host, "washingtonpost", "com")
        THEN [after_medium EXCEPT !.query = Append(@, "print=true")]
        ELSE after_medium

\* Fetcher::get_print_friendly_url
get_print_friendly_url(url) ==
    LET host == url.host IN
    IF HostContains(host, "wikipedia", "org") THEN
        IF host[1] = "en" /\ Len(host) >= 2 THEN
            [url EXCEPT !.host = <<"en", "m", "wikipedia", "org">>]
        ELSE IF ~HostHasMobileMarker(host) /\ Len(host) >= 2 THEN
            \* splitn(2, '.'): lang = first label, domain = the rest
            [url EXCEPT !.host = <<host[1], "m">> \o Tail(host)]
        ELSE url
    ELSE IF HostContains(host, "medium", "com") THEN
        [url EXCEPT !.query = <<"format=print">>]
    ELSE IF HostContains(host, "nytimes", "com")
            \/ HostContains(host, "washingtonpost", "com") THEN
        IF url.query # NoQuery
        THEN [url EXCEPT !.query = Append(url.query, "print=true")]
        ELSE [url EXCEPT !.query = <<"print=true">>]
    ELSE url


\* ------------------------------------------------------------------------
\* ExtractedContent and DownloadedImage (extract.rs:12-20, fetch.rs:8-13)
\* ------------------------------------------------------------------------
\* An absolute image URL: https://<host>/<dir>/<name>; name "" is a URL
\* whose last path segment is empty.
ImgUrl(host, dir, name) == [host |-> host, dir |-> dir, name |-> name]

DownloadedImage(local_path, mime_type) ==
    [local_path |-> local_path, mime_type |-> mime_type]

ExtractedContent(title, image_map, thumb, content) ==
    [title |-> title, image_map |-> image_map,
     original_thumbnail_url |-> thumb, content |-> content,
     article_author |-> "http-epub", date_published |-> None]

EmptyMap == [u \in {} |-> DownloadedImage("", "")]
NoContent == ExtractedContent("", EmptyMap, None, <<>>)

\* ------------------------------------------------------------------------
\* Output paths (std::path::PathBuf as create_epub uses it)
\* ------------------------------------------------------------------------
\* A file name is its file_stem() and its extension() ("" when it has
\* none): "t.epub" is Path("t", "epub"), "t (1).epub" is Path("t (1)", "epub"),
\* ".epub" is Path(".epub", "").
Path(stem, ext) == [stem |-> stem, ext |-> ext]
NoPath == Path("", "")

Titles == {"t", "t/", ""}

\* sanitize_filename::sanitize(format!("{}.epub", title)): '/' is removed.
\* An empty title leaves ".epub", a name with no extension.
DerivedPath(title) ==
    LET clean == IF title = "t/" THEN "t" ELSE title
    IN  IF clean = "" THEN Path(".epub", "") ELSE Path(clean, "epub")

\* format!("{} ({})", stem, counter) / format!("{} ({}).{}", stem, counter, ext)
NewFileName(stem, counter, ext) ==
    IF ext = ""
    THEN Path(stem \o " (" \o ToString(counter) \o ")", "")
    ELSE Path(stem \o " (" \o ToString(counter) \o ")", ext)

\* The content of a file: who wrote it (0: it was there before the first
\* conversion) and how far the write got.
File(by, state) == [by |-> by, state |-> state]

\* ------------------------------------------------------------------------
\* create_epub (epub.rs:72-246), one action per fallible step
\* ------------------------------------------------------------------------
Procs == {1, 2}

IdleEpub ==
    [pc |-> "idle", run |-> 0, extracted |-> NoContent, output |-> None,
     final_path |-> NoPath, counter |-> 0, cover |-> None,
     registered |-> {}, docs |-> {}, pending |-> {}, failed_at |-> ""]

\* return Err(..) from the step `at`
EpubFail(p, at) ==
    ep' = [ep EXCEPT ![p].pc = "failed", ![p].failed_at = at]

\* The call create_epub(&extracted, output_path_option)
Invoke(p, extracted, output) ==
    /\ ep[p].pc \in {"idle", "done", "failed"}
    /\ runs' = runs + 1
    /\ ep' = [ep EXCEPT ![p] = [IdleEpub EXCEPT !.pc = "templates",
                                                !.run = runs + 1,
                                                !.extracted = extracted,
                                                !.output = output]]
    /\ UNCHANGED fs

\* epub.rs:78-82
InitTemplates(p) ==
    /\ ep[p].pc = "templates"
    /\ \E ok \in BOOLEAN :
         IF ok THEN ep' = [ep EXCEPT ![p].pc = "path"]
               ELSE EpubFail(p, "templates")
    /\ UNCHANGED <<fs, runs, not_epub>>

\* epub.rs:85-107: the requested or derived path, and the first exists()
CheckExists(p) ==
    /\ ep[p].pc = "path"
    /\ LET path == IF IsSome(ep[p].output) THEN ep[p].output[1]
                   ELSE DerivedPath(ep[p].extracted.title)
       IN  IF path \in DOMAIN fs
           THEN ep' = [ep EXCEPT ![p].final_path = path, ![p].counter = 1,
                                 ![p].pc = "probe"]
           ELSE ep' = [ep EXCEPT ![p].final_path = path, ![p].pc = "create"]
    /\ UNCHANGED <<fs, runs, not_epub>>

\* Probe without the `!new_path.exists()` test: the first numbered name is
\* taken whether or not a file is there.
Probe_NoExistsTest(p) ==
    /\ ep[p].pc = "probe"
    /\ LET new_path == NewFileName(ep[p].final_path.stem, ep[p].counter,
                                   ep[p].final_path.ext)
       IN  ep' = [ep EXCEPT ![p].final_path = new_path, ![p].pc = "create"]
    /\ UNCHANGED <<fs, runs, not_epub>>

\* epub.rs:108-120: one iteration of the loop
Probe(p) ==
    /\ ep[p].pc = "probe"
    /\ LET new_path == NewFileName(ep[p].final_path.stem, ep[p].counter,
                                   ep[p].final_path.ext)
       IN  IF new_path \notin DOMAIN fs
           THEN ep' = [ep EXCEPT ![p].final_path = new_path, ![p].pc = "create"]
           ELSE ep' = [ep EXCEPT ![p].counter = @ + 1]
    /\ UNCHANGED <<fs, runs, not_epub>>

\* epub.rs:124-127: File::create creates the file, or truncates the one there
CreateFile(p) ==
    /\ ep[p].pc = "create"
    /\ \E ok \in BOOLEAN :
         IF ok
         THEN /\ fs' = [q \in DOMAIN fs \cup {ep[p].final_path} |->
                          IF q = ep[p].final_path THEN File(ep[p].run, "empty")
                          ELSE fs[q]]
              /\ ep' = [ep EXCEPT ![p].pc = "builder"]
         ELSE /\ EpubFail(p, "create")
              /\ UNCHANGED fs
    /\ UNCHANGED <<runs, not_epub>>

\* epub.rs:129-132
NewBuilder(p) ==
    /\ ep[p].pc = "builder"
    /\ \E ok \in BOOLEAN :
         IF ok THEN ep' = [ep EXCEPT ![p].pc = "metadata"]
               ELSE EpubFail(p, "builder")
    /\ UNCHANGED <<fs, runs, not_epub>>

\* epub.rs:135-153
SetMetadata(p) ==
    /\ ep[p].pc = "metadata"
    /\ \E ok \in BOOLEAN :
         IF ok THEN ep' = [ep EXCEPT ![p].pc = "cover_image"]
               ELSE EpubFail(p, "metadata")
    /\ UNCHANGED <<fs, runs, not_epub>>

\* AddCoverImage that returns an error when the thumbnail's asset is not in
\* the map, instead of the warning of epub.rs:177-181.
AddCoverImage_MissingIsFatal(p) ==
    /\ ep[p].pc = "cover_image"
    /\ LET x == ep[p].extracted
           thumb == x.original_thumbnail_url
       IN  IF IsSome(thumb) /\ thumb[1] \in DOMAIN x.image_map
           THEN LET info == x.image_map[thumb[1]] IN
                ep' = [ep EXCEPT
                         ![p].cover = Some(info.local_path),
                         ![p].registered = @ \cup
                             {[url |-> thumb[1], path |-> info.local_path,
                               role |-> "cover"]},
                         ![p].pc = "cover_page"]
           ELSE IF IsSome(thumb) THEN EpubFail(p, "cover_image")
           ELSE ep' = [ep EXCEPT ![p].pc = "cover_page"]
    /\ UNCHANGED <<fs, runs, not_epub>>

\* epub.rs:156-182
AddCoverImage(p) ==
    /\ ep[p].pc = "cover_image"
    /\ LET x == ep[p].extracted
           thumb == x.original_thumbnail_url
       IN  IF IsSome(thumb) /\ thumb[1] \in DOMAIN x.image_map
           THEN \E ok \in BOOLEAN :
                  IF ok
                  THEN LET info == x.image_map[thumb[1]] IN
                       ep' = [ep EXCEPT
                                ![p].cover = Some(info.local_path),
                                ![p].registered = @ \cup
                                    {[url |-> thumb[1], path |-> info.local_path,
                                      role |-> "cover"]},
                                ![p].pc = "cover_page"]
                  ELSE EpubFail(p, "cover_image")
           ELSE ep' = [ep EXCEPT ![p].pc = "cover_page"]
    /\ UNCHANGED <<fs, runs, not_epub>>

\* epub.rs:185-192
AddCoverPage(p) ==
    /\ ep[p].pc = "cover_page"
    /\ \E ok \in BOOLEAN :
         IF ok THEN ep' = [ep EXCEPT ![p].docs = @ \cup {"cover.xhtml"},
                                     ![p].pending = DOMAIN ep[p].extracted.image_map,
                                     ![p].pc = "resources"]
               ELSE EpubFail(p, "cover_page")
    /\ UNCHANGED <<fs, runs, not_epub>>

\* epub.rs:200-204
is_this_image_the_epub_cover(cover, info) ==
    IsSome(cover) /\ cover[1] = info.local_path

\* epub.rs:197-224: one iteration of the loop over image_map, a HashMap,
\* whose iteration order is arbitrary
AddResource(p) ==
    /\ ep[p].pc = "resources"
    /\ \E url \in ep[p].pending :
         LET info == ep[p].extracted.image_map[url] IN
         IF is_this_image_the_epub_cover(ep[p].cover, info)
         THEN ep' = [ep EXCEPT ![p].pending = @ \ {url}]
         ELSE \E ok \in BOOLEAN :
                IF ok
                THEN ep' = [ep EXCEPT
                              ![p].pending = @ \ {url},
                              ![p].registered = @ \cup
                                  {[url |-> url, path |-> info.local_path,
                                    role |-> "resource"]}]
                ELSE EpubFail(p, "resource")
    /\ UNCHANGED <<fs, runs, not_epub>>

\* epub.rs:227-236
AddArticle(p) ==
    /\ ep[p].pc = "resources"
    /\ ep[p].pending = {}
    /\ \E ok \in BOOLEAN :
         IF ok THEN ep' = [ep EXCEPT ![p].docs = @ \cup {"article.xhtml"},
                                     ![p].pc = "generate"]
               ELSE EpubFail(p, "article")
    /\ UNCHANGED <<fs, runs, not_epub>>

\* epub.rs:239-245: the container is written through the handle File::create
\* returned; a failed generate has written nothing or a part of it
Generate(p) ==
    /\ ep[p].pc = "generate"
    /\ \E outcome \in {"complete", "partial", "empty"} :
         IF outcome = "complete"
         THEN /\ fs' = [fs EXCEPT ![ep[p].final_path] = File(ep[p].run, "complete")]
              /\ ep' = [ep EXCEPT ![p].pc = "done"]
         ELSE /\ fs' = [fs EXCEPT ![ep[p].final_path] = File(ep[p].run, outcome)]
              /\ EpubFail(p, "generate")
    /\ UNCHANGED <<runs, not_epub>>

create_epub(p) ==
    \/ InitTemplates(p)
    \/ CheckExists(p)
    \/ Probe(p)
    \/ CreateFile(p)
    \/ NewBuilder(p)
    \/ SetMetadata(p)
    \/ AddCoverImage(p)
    \/ AddCoverPage(p)
    \/ AddResource(p)
    \/ AddArticle(p)
    \/ Generate(p)


\* ------------------------------------------------------------------------
\* Pages, image references and servers
\* ------------------------------------------------------------------------
\* The value of a src attribute as written in the page: relative to the
\* page's directory ("img"), rooted at the page's host ("/y/img"), absolute
\* ("https://cdn.com/x/img"), a data: URI, or a string Url::join rejects.
Src(kind, host, dir, name) == [kind |-> kind, host |-> host, dir |-> dir, name |-> name]
RelSrc(name) == Src("rel", <<>>, "", name)
RootedSrc(dir, name) == Src("rooted", <<>>, dir, name)
DataSrc == Src("data", <<>>, "", "")
BadSrc == Src("bad", <<>>, "", "")
\* A src that replace_image_urls set to a local path.
LocalSrc(path) == Src("local", <<>>, "", path)

\* The URL that a data: URI is: it has a scheme of its own and no host.
DataUrl == ImgUrl(<<>>, "", "data:")

\* Url::join(base, src): Some(absolute URL), or None when it fails. A
\* reference with a scheme of its own is that URL, whatever the base.
Join(base, src) ==
    CASE src.kind = "rel"    -> Some(ImgUrl(base.host, base.dir, src.name))
      [] src.kind = "rooted" -> Some(ImgUrl(base.host, src.dir, src.name))
      [] src.kind = "abs"    -> Some(ImgUrl(src.host, src.dir, src.name))
      [] src.kind = "data"   -> Some(DataUrl)
      [] OTHER               -> None

\* src_str.starts_with("data:")
IsDataUri(src) == src.kind = "data"

\* An <img> element and its src attribute (None: it has none).
Img(src) == [tag |-> "img", src |-> src]

\* A <video> element with its src attribute and its child nodes, in document
\* order; <source> and <track> children with their src attribute.
Video(src, children) == [tag |-> "video", src |-> src, children |-> children]
Source(src) == [tag |-> "source", src |-> src]
Track(src) == [tag |-> "track", src |-> src]
\* A paragraph of text.
Paragraph == [tag |-> "p", src |-> None]

ImgSrcs == {RelSrc("img"), RootedSrc("x", "img"), RootedSrc("y", "img"),
            RootedSrc("y", ""), DataSrc, BadSrc}
ThumbSrcs == {RelSrc("img"), RootedSrc("y", "img"), BadSrc}

\* What the readability service makes of a page's HTML: kind "unparseable"
\* (parse_offline fails), "no_article" (article.html is None) or "article",
\* with the <img> elements of the article and the thumbnail it reports.
\* author and date are what the readability service inferred, head the <meta>
\* elements of the <head> of the original HTML, in document order.
Html(kind, imgs, thumb) ==
    [kind |-> kind, title |-> Some("t"), imgs |-> imgs, videos |-> <<>>,
     thumbnail_url |-> thumb, author |-> None, date |-> None, head |-> <<>>]

\* The <video> elements of an article: none, or one whose src is a data:
\* URI, whose first <source> has no src and whose second one has.
ArticleVideos ==
    {<<>>, <<Video(Some(DataSrc), <<Source(None), Source(Some(RelSrc("m.mp4")))>>)>>}

\* The articles: up to MaxImgs images with or without a thumbnail and no
\* video, and fewer than MaxImgs images with no thumbnail and any videos.
ArticleHtmls ==
    {Html("article", imgs, thumb) :
        imgs \in {[i \in 1..Len(s) |-> Img(Some(s[i]))] : s \in SeqsUpTo(ImgSrcs, MaxImgs)},
        thumb \in {None} \cup {Some(t) : t \in ThumbSrcs}}
    \cup
    {[Html("article", imgs, None) EXCEPT !.videos = videos] :
        imgs \in {[i \in 1..Len(s) |-> Img(Some(s[i]))] : s \in SeqsUpTo(ImgSrcs, MaxImgs - 1)},
        videos \in ArticleVideos}

\* The body of an error response: a page with an article and no image.
ErrorPage == Html("article", <<>>, None)

\* A server's answer: no answer at all (transport error), or a response with
\* a status, a Content-Type header (or none) and a body that can, or cannot,
\* be read.
TransportError == [kind |-> "transport_err", status |-> 0, content_type |-> None,
                   readable |-> FALSE, html |-> ErrorPage]
Response(status, content_type, readable, html) ==
    [kind |-> "response", status |-> status, content_type |-> content_type,
     readable |-> readable, html |-> html]

PageResponses ==
    {TransportError, Response(200, Some("text/html"), FALSE, ErrorPage),
     Response(404, Some("text/html"), TRUE, ErrorPage),
     Response(200, Some("text/html"), TRUE, Html("unparseable", <<>>, None)),
     Response(200, Some("text/html"), TRUE, Html("no_article", <<>>, None))}
    \cup {Response(200, Some("text/html"), TRUE, h) : h \in ArticleHtmls}

ImageResponses ==
    {TransportError, Response(404, Some("text/html"), TRUE, ErrorPage),
     Response(200, Some("image/png"), FALSE, ErrorPage),
     Response(200, Some("image/png"), TRUE, ErrorPage),
     Response(200, None, TRUE, ErrorPage)}

\* response.status().is_success()
IsSuccess(status) == status >= 200 /\ status <= 299

\* ------------------------------------------------------------------------
\* Fetcher: image downloads (fetch.rs:109-216)
\* ------------------------------------------------------------------------
\* t.contains(needle) for the Content-Type values of the model
CtContains(t, needle) ==
    <<t, needle>> \in {<<"image/jpeg", "jpeg">>, <<"image/jpg", "jpg">>,
                       <<"image/png", "png">>, <<"image/gif", "gif">>,
                       <<"image/svg+xml", "svg">>, <<"image/webp", "webp">>,
                       <<"image/gif; name=a.png", "gif">>,
                       <<"image/gif; name=a.png", "png">>}

\* fetch.rs:194-208
MimeOfContentType(header) ==
    LET t == IF IsSome(header) THEN header[1] ELSE "image/jpeg" IN
    IF CtContains(t, "jpeg") \/ CtContains(t, "jpg") THEN "image/jpeg"
    ELSE IF CtContains(t, "png") THEN "image/png"
    ELSE IF CtContains(t, "gif") THEN "image/gif"
    ELSE IF CtContains(t, "svg") THEN "image/svg+xml"
    ELSE IF CtContains(t, "webp") THEN "image/webp"
    ELSE "image/jpeg"

\* download_image without the `!response.status().is_success()` test.
download_image_NoStatusTest(resp) ==
    IF resp.kind = "transport_err" THEN None
    ELSE IF ~resp.readable THEN None
    ELSE Some(MimeOfContentType(resp.content_type))

\* Fetcher::download_image on the server's answer: Some(mime type) for
\* Ok((data, mime_type)), None for Err
download_image(resp) ==
    IF resp.kind = "transport_err" THEN None
    ELSE IF ~IsSuccess(resp.status) THEN None
    ELSE IF ~resp.readable THEN None
    ELSE Some(MimeOfContentType(resp.content_type))

\* generate_unique_filename that skips empty segments from the end of the
\* path: the directory names the file of a URL that ends with "/".
generate_unique_filename_LastNonEmpty(url, fresh) ==
    IF url.name # "" THEN url.name
    ELSE IF url.dir # "" THEN url.dir
    ELSE "uuid" \o ToString(fresh)

\* Fetcher::generate_unique_filename; `fresh` numbers the Uuid::new_v4() calls
generate_unique_filename(url, fresh) ==
    IF url.name # "" THEN url.name ELSE "uuid" \o ToString(fresh)

\* Fetcher::mime_type_to_extension
mime_type_to_extension(mime_type) ==
    CASE mime_type = "image/jpeg"    -> "jpg"
      [] mime_type = "image/png"     -> "png"
      [] mime_type = "image/gif"     -> "gif"
      [] mime_type = "image/svg+xml" -> "svg"
      [] mime_type = "image/webp"    -> "webp"
      [] OTHER                       -> "jpg"

\* ------------------------------------------------------------------------
\* Extractor::process (extract.rs:47-104), one action per stage
\* ------------------------------------------------------------------------
NoUrl == [host |-> <<>>, dir |-> "", query |-> NoQuery]
NoFetched == [original_url |-> NoUrl, url |-> NoUrl, html_string |-> ErrorPage]

\* No document was serialized yet.
NoDocument == [tag |-> "", children |-> <<>>]

\* final_body is the nodes of the cleaned document's <body>, in document
\* order; final_document is cleaned_document.html(), the whole document.
IdleProc ==
    [pc |-> "idle", original_url |-> NoUrl, content |-> NoFetched,
     parsed |-> ErrorPage, image_urls |-> {}, to_download |-> {},
     thumb |-> None, image_map |-> EmptyMap, uuids |-> 0,
     final_body |-> <<>>, final_document |-> NoDocument, steps |-> <<>>,
     result |-> NoContent, failed_at |-> ""]

\* Nothing was requested yet. page_sent and img_sent count the requests
\* sent for the page and for each image URL.
IdleNet ==
    [page |-> None, images |-> [u \in {} |-> TransportError],
     page_sent |-> 0, img_sent |-> [u \in {} |-> 0]]

\* One more request sent for url.
CountRequest(sent, url) ==
    [u \in DOMAIN sent \cup {url} |->
        (IF u \in DOMAIN sent THEN sent[u] ELSE 0) + (IF u = url THEN 1 ELSE 0)]

\* return Err(..) from the stage `at`
ProcFail(at) == proc' = [proc EXCEPT !.pc = "failed", !.failed_at = at]

\* Fetcher::fetch_content (fetch.rs:39-61), called at extract.rs:48
FetchContent ==
    /\ proc.pc = "fetch"
    /\ \E resp \in PageResponses :
         LET pf_url == get_print_friendly_url(proc.original_url) IN
         /\ net' = [net EXCEPT !.page = Some([url |-> pf_url, resp |-> resp]),
                               !.page_sent = @ + 1]
         /\ IF resp.kind = "transport_err" THEN ProcFail("fetch")
            ELSE IF ~resp.readable THEN ProcFail("fetch")
            ELSE proc' = [proc EXCEPT
                            !.content = [original_url |-> proc.original_url,
                                         url |-> pf_url,
                                         html_string |-> resp.html],
                            !.pc = "parse"]
    /\ UNCHANGED not_proc

\* parsed_article without the `ok_or_else` on article.html: a parse result
\* with no article HTML is passed on.
ParseArticle_NoArticleAccepted ==
    /\ proc.pc = "parse"
    /\ LET html == proc.content.html_string IN
       IF html.kind = "unparseable" THEN ProcFail("parse")
       ELSE proc' = [proc EXCEPT !.parsed = html, !.pc = "images"]
    /\ UNCHANGED <<net, not_proc>>

\* Extractor::parsed_article (extract.rs:107-138), called at extract.rs:49
ParseArticle ==
    /\ proc.pc = "parse"
    /\ LET html == proc.content.html_string IN
       IF html.kind = "unparseable" THEN ProcFail("parse")
       ELSE IF html.kind = "no_article" THEN ProcFail("parse")
       ELSE proc' = [proc EXCEPT !.parsed = html, !.pc = "images"]
    /\ UNCHANGED <<net, not_proc>>

\* Extractor::extract_image_urls (extract.rs:240-269); article.url is the
\* URL parse_offline was given, content.url
extract_image_urls(parsed, base) ==
    LET string_urls_to_resolve ==
            {parsed.imgs[i].src[1] :
                i \in {j \in 1..Len(parsed.imgs) :
                         /\ IsSome(parsed.imgs[j].src)
                         /\ ~IsDataUri(parsed.imgs[j].src[1])}}
    IN  {Join(base, s)[1] : s \in {t \in string_urls_to_resolve : IsSome(Join(base, t))}}

\* CollectImageUrls without extract.rs:66-68: the thumbnail is resolved and
\* not added to the URLs to download.
CollectImageUrls_NoThumbnail ==
    /\ proc.pc = "images"
    /\ LET base == proc.content.url
           found == extract_image_urls(proc.parsed, base)
           absolute_thumbnail_url ==
               IF IsSome(proc.parsed.thumbnail_url)
               THEN Join(base, proc.parsed.thumbnail_url[1])
               ELSE None
       IN  proc' = [proc EXCEPT !.image_urls = found,
                                !.to_download = found,
                                !.thumb = absolute_thumbnail_url,
                                !.pc = "download"]
    /\ UNCHANGED <<net, not_proc>>

\* extract.rs:50-68: the image URLs of the body, and the thumbnail
CollectImageUrls ==
    /\ proc.pc = "images"
    /\ LET base == proc.content.url
           found == extract_image_urls(proc.parsed, base)
           absolute_thumbnail_url ==
               IF IsSome(proc.parsed.thumbnail_url)
               THEN Join(base, proc.parsed.thumbnail_url[1])
               ELSE None
           image_urls == IF IsSome(absolute_thumbnail_url)
                         THEN found \cup {absolute_thumbnail_url[1]}
                         ELSE found
       IN  proc' = [proc EXCEPT !.image_urls = image_urls,
                                !.to_download = image_urls,
                                !.thumb = absolute_thumbnail_url,
                                !.pc = "download"]
    /\ UNCHANGED <<net, not_proc>>

\* DownloadImage that keeps a URL whose download failed among those to
\* download, so that it is requested again.
DownloadImage_RetryFailed ==
    /\ proc.pc = "download"
    /\ \E url \in proc.to_download, resp \in ImageResponses :
         LET got == download_image(resp) IN
         /\ net' = [net EXCEPT !.images =
                        [u \in DOMAIN net.images \cup {url} |->
                            IF u = url THEN resp ELSE net.images[u]],
                               !.img_sent = CountRequest(@, url)]
         /\ IF IsSome(got)
            THEN proc' = [proc EXCEPT
                            !.to_download = @ \ {url},
                            !.image_map =
                                [u \in DOMAIN proc.image_map \cup {url} |->
                                    IF u = url
                                    THEN DownloadedImage("images/" \o url.name \o ".jpg", got[1])
                                    ELSE proc.image_map[u]]]
            ELSE proc' = proc
    /\ UNCHANGED not_proc

\* fetch.rs:119-144: one iteration of download_image_list's loop over the
\* HashSet of URLs, whose iteration order is arbitrary; the server's answer
\* is one of `responses`
DownloadFrom(responses) ==
    /\ proc.pc = "download"
    /\ \E url \in proc.to_download, resp \in responses :
         LET got == download_image(resp) IN
         /\ net' = [net EXCEPT !.images =
                        [u \in DOMAIN net.images \cup {url} |->
                            IF u = url THEN resp ELSE net.images[u]],
                               !.img_sent = CountRequest(@, url)]
         /\ IF IsSome(got)
            THEN LET base_name == generate_unique_filename(url, proc.uuids + 1)
                     extension == mime_type_to_extension(got[1])
                     local_img_path == "images/" \o base_name \o "." \o extension
                 IN  proc' = [proc EXCEPT
                                !.to_download = @ \ {url},
                                !.uuids = IF url.name = "" THEN @ + 1 ELSE @,
                                !.image_map =
                                    [u \in DOMAIN proc.image_map \cup {url} |->
                                        IF u = url
                                        THEN DownloadedImage(local_img_path, got[1])
                                        ELSE proc.image_map[u]]]
            ELSE proc' = [proc EXCEPT !.to_download = @ \ {url}]
    /\ UNCHANGED not_proc

\* download_image_list within a conversion
DownloadImage == DownloadFrom(ImageResponses)

\* The tags of the model's elements that clean_html's allow-list names.
AllowedTags == {"p", "em", "a", "img", "video", "source"}
IsAllowedTag(el) == el.tag \in AllowedTags
\* url_schemes: a src whose scheme is not http, https or mailto is stripped
\* (a relative reference has no scheme and stays).
CleanSrc(el) ==
    IF IsSome(el.src) /\ IsDataUri(el.src[1]) THEN [el EXCEPT !.src = None] ELSE el

\* Extractor::clean_html (extract.rs:344-402) on an element: ammonia keeps
\* the elements of the allow-list (<img>, <video>, <source> among them),
\* removes the others, and strips a src whose scheme is not allowed.
clean_html(el) ==
    IF el.tag = "video"
    THEN LET kept == SelectSeq(el.children, IsAllowedTag)
         IN  [CleanSrc(el) EXCEPT !.children = [j \in 1..Len(kept) |-> CleanSrc(kept[j])]]
    ELSE CleanSrc(el)

\* ------------------------------------------------------------------------
\* Extractor::convert_video_tags_to_links
\* ------------------------------------------------------------------------
\* <p><a href="{x}" title="Video content">Watch Video: {x}</a></p>: the
\* same string is formatted into the href and into the text of the link.
VideoLink(x) ==
    [tag |-> "p", src |-> None,
     a |-> [href |-> x, title |-> "Video content", text |-> <<"Watch Video: ", x>>]]
\* <p><em>Video content not available</em></p>
VideoPlaceholder == [tag |-> "p", src |-> None, em |-> "Video content not available"]

\* The loop of extract.rs:287-294: the src of the first child <source> that
\* has a src attribute.
RECURSIVE first_source_src(_)
first_source_src(children) ==
    IF children = <<>> THEN None
    ELSE IF Head(children).tag = "source" /\ IsSome(Head(children).src)
         THEN Head(children).src
         ELSE first_source_src(Tail(children))

\* video_url that looks at the first child <source> only, whether or not it
\* has a src.
video_url_FirstSourceOnly(video_element) ==
    IF IsSome(video_element.src) THEN video_element.src
    ELSE LET sources == SelectSeq(video_element.children, LAMBDA c : c.tag = "source")
         IN  IF sources = <<>> THEN None ELSE sources[1].src

\* extract.rs:281-295: the video's own src, else that of a child <source>
video_url(video_element) ==
    IF IsSome(video_element.src) THEN video_element.src
    ELSE first_source_src(video_element.children)

\* extract.rs:297-316: the markup that replaces a <video>
replacement_html(video_element, page_base_url) ==
    LET url_str == video_url(video_element) IN
    IF IsSome(url_str)
    THEN LET abs_url == Join(page_base_url, url_str[1]) IN
         IF IsSome(abs_url) THEN VideoLink(abs_url[1]) ELSE VideoLink(url_str[1])
    ELSE VideoPlaceholder

\* Extractor::convert_video_tags_to_links (extract.rs:272-324) on the nodes
\* of a document: every <video> is replaced, the other nodes stay.
convert_video_tags_to_links(nodes, page_base_url) ==
    [i \in 1..Len(nodes) |->
        IF nodes[i].tag = "video" THEN replacement_html(nodes[i], page_base_url)
        ELSE nodes[i]]

\* replace_image_urls that rewrites every resolvable src to the path its
\* image would have, without looking the URL up in the map.
replace_image_urls_NoLookup(el, image_map, page_base_url) ==
    IF el.tag # "img" \/ ~IsSome(el.src) THEN el
    ELSE IF IsDataUri(el.src[1]) THEN el
    ELSE LET abs_url_from_html == Join(page_base_url, el.src[1]) IN
         IF IsSome(abs_url_from_html)
         THEN [el EXCEPT !.src =
                 Some(LocalSrc("images/" \o abs_url_from_html[1].name \o ".jpg"))]
         ELSE el

\* Extractor::replace_image_urls (extract.rs:405-438) on an element
replace_image_urls(el, image_map, page_base_url) ==
    IF el.tag # "img" \/ ~IsSome(el.src) THEN el
    ELSE IF IsDataUri(el.src[1]) THEN el
    ELSE LET abs_url_from_html == Join(page_base_url, el.src[1]) IN
         IF IsSome(abs_url_from_html) /\ abs_url_from_html[1] \in DOMAIN image_map
         THEN [el EXCEPT !.src = Some(LocalSrc(image_map[abs_url_from_html[1]].local_path))]
         ELSE el

\* DomDocument::from(cleaned_body_html) followed by cleaned_document.html()
\* (extract.rs:77, 81): the fragment is parsed as a document, so the parser
\* puts its nodes into the <body> of an <html> element with an empty
\* <head>, and html() serializes that whole document.
document_html(body_nodes) ==
    [tag |-> "html",
     children |-> << [tag |-> "head", children |-> <<>>],
                     [tag |-> "body", children |-> body_nodes] >>]

\* The locals of process once cleaned_document.html() was taken.
Serialized(p) == [p EXCEPT !.final_document = document_html(p.final_body)]

\* TransformBody without waiting for download_image_list to return: the
\* body is rewritten with the map as it is at that moment.
TransformBody_BeforeDownloadsEnd ==
    /\ proc.pc = "download"
    /\ LET body_html == proc.parsed.imgs \o proc.parsed.videos
           cleaned_body_html == [i \in 1..Len(body_html) |-> clean_html(body_html[i])]
           cleaned_document == convert_video_tags_to_links(cleaned_body_html,
                                                           proc.content.url)
       IN  proc' = Serialized([proc EXCEPT
                      !.final_body = [i \in 1..Len(cleaned_document) |->
                                        replace_image_urls(cleaned_document[i],
                                                           proc.image_map,
                                                           proc.content.url)],
                      !.steps = <<"sanitize", "entities", "trim", "video",
                                  "image_rewrite">>,
                      !.pc = "finish"])
    /\ UNCHANGED <<net, not_proc>>

\* ammonia on the markup that replaces a video: the href of a link is
\* stripped when its scheme is not http, https or mailto.
CleanHref(el) ==
    IF "a" \in DOMAIN el /\ el.a.href = DataUrl THEN [el EXCEPT !.a.href = None] ELSE el

\* TransformBody with the videos converted before the body is cleaned.
TransformBody_VideoFirst ==
    /\ proc.pc = "download"
    /\ proc.to_download = {}
    /\ LET body_html == proc.parsed.imgs \o proc.parsed.videos
           converted == convert_video_tags_to_links(body_html, proc.content.url)
           cleaned == [i \in 1..Len(converted) |-> CleanHref(clean_html(converted[i]))]
       IN  proc' = Serialized([proc EXCEPT
                      !.final_body = [i \in 1..Len(cleaned) |->
                                        replace_image_urls(cleaned[i], proc.image_map,
                                                           proc.content.url)],
                      !.steps = <<"video", "sanitize", "entities", "trim",
                                  "image_rewrite">>,
                      !.pc = "finish"])
    /\ UNCHANGED <<net, not_proc>>

\* Extractor::extract_body (extract.rs:327-341): the article's elements
extract_body(parsed) == parsed.imgs \o parsed.videos

\* extract.rs:70-81: download_image_list has returned Ok(image_map); the
\* body is cleaned, its videos are converted and its image URLs are replaced
TransformBody ==
    /\ proc.pc = "download"
    /\ proc.to_download = {}
    /\ LET body_html == extract_body(proc.parsed)
           cleaned_body_html == [i \in 1..Len(body_html) |-> clean_html(body_html[i])]
           cleaned_document == convert_video_tags_to_links(cleaned_body_html,
                                                           proc.content.url)
       IN  proc' = Serialized([proc EXCEPT
                      !.final_body = [i \in 1..Len(cleaned_document) |->
                                        replace_image_urls(cleaned_document[i],
                                                           proc.image_map,
                                                           proc.content.url)],
                      !.steps = <<"sanitize", "entities", "trim", "video",
                                  "image_rewrite">>,
                      !.pc = "finish"])
    /\ UNCHANGED <<net, not_proc>>

\* Extractor::extract_title (extract.rs:232-237)
extract_title(parsed) ==
    IF IsSome(parsed.title) THEN parsed.title[1] ELSE "Unknown"

\* ------------------------------------------------------------------------
\* Author and date fallback chains (extract.rs:140-230)
\* ------------------------------------------------------------------------
\* <meta name="author" content="..."> is Meta("name", "author", Some("...")).
Meta(attr, key, content) == [attr |-> attr, key |-> key, content |-> content]
\* The selector meta[name="author"] is Selector("name", "author").
Selector(attr, key) == [attr |-> attr, key |-> key]
\* document.select(selector).nodes(): the matching elements, in document order
Select(head, selector) ==
    SelectSeq(head, LAMBDA el : el.attr = selector.attr /\ el.key = selector.key)

\* str::trim on the strings of the model
Trim(s) ==
    CASE s = " "    -> ""
      [] s = " Al " -> "Al"
      [] s = " Ann" -> "Ann"
      [] OTHER      -> s

author_meta_selectors ==
    <<Selector("name", "author"), Selector("property", "article:author"),
      Selector("name", "dc.creator"), Selector("name", "dcterms.creator"),
      Selector("property", "author")>>

\* The loop of extract.rs:160-171 over the selectors that are left
RECURSIVE author_from_meta_tags(_, _)
author_from_meta_tags(head, selectors) ==
    IF selectors = <<>> THEN "http-epub"
    ELSE LET author_selection == Select(head, Head(selectors)) IN
         IF /\ author_selection # <<>>
            /\ IsSome(author_selection[1].content)
            /\ Trim(author_selection[1].content[1]) # ""
         THEN author_selection[1].content[1]
         ELSE author_from_meta_tags(head, Tail(selectors))

\* extract_author that takes the library's author whenever there is one,
\* without the `!author.trim().is_empty()` test.
extract_author_NoTrimTest(parsed) ==
    IF IsSome(parsed.author) THEN parsed.author[1]
    ELSE author_from_meta_tags(parsed.head, author_meta_selectors)

\* Extractor::extract_author (extract.rs:140-173)
extract_author(parsed) ==
    IF IsSome(parsed.author) /\ Trim(parsed.author[1]) # ""
    THEN parsed.author[1]
    ELSE author_from_meta_tags(parsed.head, author_meta_selectors)

\* DateTime<Utc>: a calendar date and a time of day, in UTC
DateTime(date, time) == [date |-> date, time |-> time]

\* DateTime::parse_from_rfc3339(s), then with_timezone(&Utc): the offset
\* is applied.
parse_from_rfc3339(s) ==
    CASE s = "2024-03-01T10:00:00Z"      -> Some(DateTime("2024-03-01", "10:00:00"))
      [] s = "2024-03-01T10:00:00+02:00" -> Some(DateTime("2024-03-01", "08:00:00"))
      [] OTHER                           -> None

formats_to_try ==
    <<"%Y-%m-%dT%H:%M:%S%z", "%Y-%m-%dT%H:%M:%S%.3f%z", "%Y-%m-%d %H:%M:%S %z",
      "%b %d, %Y %I:%M %p", "%B %d, %Y %I:%M %p", "%Y-%m-%d">>

\* chrono::NaiveDateTime::parse_from_str(s, fmt), read as UTC by
\* from_naive_utc_and_offset: a parsed offset is ignored, so the wall-clock
\* time of the string is kept. A string without a time of day fails.
NaiveDateTime_parse_from_str(s, fmt) ==
    CASE s = "2024-03-01T10:00:00+0200" /\ fmt = "%Y-%m-%dT%H:%M:%S%z"
            -> Some(DateTime("2024-03-01", "10:00:00"))
      [] s = "2024-03-01 10:00:00 +0200" /\ fmt = "%Y-%m-%d %H:%M:%S %z"
            -> Some(DateTime("2024-03-01", "10:00:00"))
      [] s = "May 31, 2025 10:11 AM" /\ fmt \in {"%b %d, %Y %I:%M %p", "%B %d, %Y %I:%M %p"}
            -> Some(DateTime("2025-05-31", "10:11:00"))
      [] OTHER -> None

\* chrono::NaiveDate::parse_from_str(s, fmt), then and_hms_opt(0, 0, 0)
NaiveDate_parse_from_str(s, fmt) ==
    CASE s = "2024-03-01" /\ fmt = "%Y-%m-%d" -> Some(DateTime("2024-03-01", "00:00:00"))
      [] OTHER -> None

\* The loop of extract.rs:198-219 over the formats that are left
RECURSIVE parse_with_formats(_, _)
parse_with_formats(content_str, formats) ==
    IF formats = <<>> THEN None
    ELSE IF IsSome(NaiveDateTime_parse_from_str(content_str, Head(formats)))
         THEN NaiveDateTime_parse_from_str(content_str, Head(formats))
         ELSE IF IsSome(NaiveDate_parse_from_str(content_str, Head(formats)))
              THEN NaiveDate_parse_from_str(content_str, Head(formats))
              ELSE parse_with_formats(content_str, Tail(formats))

\* extract.rs:187-219: RFC 3339 first, then the formats
parse_date_content(content_str) ==
    IF IsSome(parse_from_rfc3339(content_str)) THEN parse_from_rfc3339(content_str)
    ELSE parse_with_formats(content_str, formats_to_try)

date_meta_selectors ==
    <<Selector("property", "article:published_time"), Selector("name", "publish-date"),
      Selector("name", "date")>>

\* The loop of extract.rs:181-225 that gives up at the first selector whose
\* element has a non-empty content, parsed or not.
RECURSIVE date_from_selectors_FirstContentOnly(_, _)
date_from_selectors_FirstContentOnly(head, selectors) ==
    IF selectors = <<>> THEN None
    ELSE LET date_selection == Select(head, Head(selectors)) IN
         IF /\ date_selection # <<>>
            /\ IsSome(date_selection[1].content)
            /\ Trim(date_selection[1].content[1]) # ""
         THEN parse_date_content(date_selection[1].content[1])
         ELSE date_from_selectors_FirstContentOnly(head, Tail(selectors))

\* The loop of extract.rs:181-225 over the selectors that are left: a
\* content that no format parses does not end the loop.
RECURSIVE date_from_selectors(_, _)
date_from_selectors(head, selectors) ==
    IF selectors = <<>> THEN None
    ELSE LET date_selection == Select(head, Head(selectors)) IN
         IF /\ date_selection # <<>>
            /\ IsSome(date_selection[1].content)
            /\ Trim(date_selection[1].content[1]) # ""
            /\ IsSome(parse_date_content(date_selection[1].content[1]))
         THEN parse_date_content(date_selection[1].content[1])
         ELSE date_from_selectors(head, Tail(selectors))

\* Extractor::_extract_date_from_meta_tags (extract.rs:175-230)
extract_date_from_meta_tags(head) == date_from_selectors(head, date_meta_selectors)

\* extract.rs:82-103: title, author and date, and Ok(ExtractedContent)
FinishProcess ==
    /\ proc.pc = "finish"
    /\ LET title == extract_title(proc.parsed)
           article_author == extract_author(proc.parsed)
           date_published == IF IsSome(proc.parsed.date) THEN proc.parsed.date
                             ELSE extract_date_from_meta_tags(proc.parsed.head)
       IN  proc' = [proc EXCEPT
                      !.result = [ExtractedContent(title, proc.image_map, proc.thumb,
                                                   proc.final_body)
                                    EXCEPT !.article_author = article_author,
                                           !.date_published = date_published],
                      !.pc = "extracted"]
    /\ UNCHANGED <<net, not_proc>>

\* create_epub is called on what process returned
Package ==
    /\ proc.pc = "extracted"
    /\ proc' = [proc EXCEPT !.pc = "packaging"]
    /\ Invoke(1, proc.result, None)
    /\ UNCHANGED <<norm_trace, net, document>>

\* No document has been parsed.
IdleDocument == [pc |-> "idle", page_base_url |-> NoUrl, html |-> <<>>, nodes |-> <<>>]

\* One conversion: the page URL (the normaliser moves it to the mobile host),
\* and a directory in which t.epub is or is not
PipelineUrls ==
    {[host |-> <<"en", "wikipedia", "org">>, dir |-> "x", query |-> NoQuery]}

Init ==
    /\ norm_trace = <<>>
    /\ fs \in {[q \in K |-> File(0, "complete")] : K \in SUBSET {Path("t", "epub")}}
    /\ runs = 0
    /\ ep = [p \in Procs |-> IdleEpub]
    /\ proc \in {[IdleProc EXCEPT !.pc = "fetch", !.original_url = u] : u \in PipelineUrls}
    /\ net = IdleNet
    /\ document = IdleDocument

Next ==
    \/ FetchContent
    \/ ParseArticle
    \/ CollectImageUrls
    \/ DownloadImage
    \/ TransformBody
    \/ FinishProcess
    \/ Package
    \/ create_epub(1)

Spec == Init /\ [][Next]_vars

\* ------------------------------------------------------------------------
\* Conversions run one after the other into one directory
\* ------------------------------------------------------------------------
BaseFiles == {Path("t", "epub"), Path("t", ""), Path(".epub", "")}

Numbered(base, k) == IF k = 0 THEN base ELSE NewFileName(base.stem, k, base.ext)

\* The directory before the first conversion: any of the files base,
\* "base (1)", ..., "base (MaxCounter)" of one base name.
InitialDirs ==
    {[q \in {Numbered(base, k) : k \in K} |-> File(0, "complete")] :
        base \in BaseFiles, K \in SUBSET (0..MaxCounter)}

OutputOptions ==
    {None, Some(Path("t", "epub")), Some(Path("t", "")), Some(Path("t (1)", "epub"))}

U1 == ImgUrl(<<"cdn", "com">>, "x", "img")

\* ExtractedContent values handed to create_epub by a caller: every title
\* without images, and one title with an image that is, or is not, the
\* thumbnail, and with a thumbnail whose download failed.
SampleContents ==
    {ExtractedContent(title, EmptyMap, None, <<>>) : title \in Titles}
    \cup
    {ExtractedContent("t", map, thumb, <<>>) :
        map \in {EmptyMap,
                 [u \in {U1} |-> DownloadedImage("images/img.png", "image/png")]},
        thumb \in {None, Some(U1)}}

FsInit ==
    /\ fs \in InitialDirs
    /\ runs = 0
    /\ ep = [p \in Procs |-> IdleEpub]
    /\ norm_trace = <<>>
    /\ proc = IdleProc
    /\ net = IdleNet
    /\ document = IdleDocument

Convert(p) ==
    /\ runs < MaxRuns
    /\ \E x \in SampleContents, o \in OutputOptions : Invoke(p, x, o)
    /\ UNCHANGED not_epub

FsNext == Convert(1) \/ create_epub(1)

SpecFs == FsInit /\ [][FsNext]_vars

\* ------------------------------------------------------------------------
\* Two conversions run at the same time into one directory
\* ------------------------------------------------------------------------
\* Both callers pass the same output option, a path or none; the contents
\* have the title t, so that the derived path is t.epub for both.
ConcOutputs == {None, Some(Path("t", "epub"))}
ConcContents == {x \in SampleContents : x.title = "t"}
\* The directory: t.epub and its numbered names, some of them taken.
ConcDirs == {d \in InitialDirs : DOMAIN d \subseteq {Numbered(Path("t", "epub"), k) :
                                                        k \in 0..MaxCounter}}

\* create_epub was just called by two processes (or threads) that share
\* the directory.
ConcInit ==
    /\ fs \in ConcDirs
    /\ runs = 2
    /\ \E o \in ConcOutputs, x \in ConcContents, y \in ConcContents :
         ep = [p \in Procs |->
                 [IdleEpub EXCEPT !.pc = "templates", !.run = p,
                                  !.extracted = IF p = 1 THEN x ELSE y,
                                  !.output = o]]
    /\ norm_trace = <<>>
    /\ proc = IdleProc
    /\ net = IdleNet
    /\ document = IdleDocument

\* The steps of the two invocations interleave in any order.
ConcNext == \E p \in Procs : create_epub(p)

SpecConc == ConcInit /\ [][ConcNext]_vars

\* ------------------------------------------------------------------------
\* The normaliser applied to its own output
\* ------------------------------------------------------------------------
NormInit ==
    /\ norm_trace \in {<<u>> : u \in PageUrls}
    /\ fs = [q \in {} |-> File(0, "complete")]
    /\ runs = 0
    /\ ep = [p \in Procs |-> IdleEpub]
    /\ proc = IdleProc
    /\ net = IdleNet
    /\ document = IdleDocument

Normalize ==
    /\ Len(norm_trace) <= MaxApply
    /\ norm_trace' = Append(norm_trace, get_print_friendly_url(norm_trace[Len(norm_trace)]))
    /\ UNCHANGED not_norm

NormNext == Normalize

SpecNorm == NormInit /\ [][NormNext]_vars

\* ------------------------------------------------------------------------
\* convert_video_tags_to_links applied to a parsed document
\* ------------------------------------------------------------------------
\* The src of a <video> or of one of its children: relative to the page, or
\* a string that Url::join rejects.
VideoSrcs == {RelSrc("v.mp4"), BadSrc}
ChildNodes ==
    {Source(None), Source(Some(RelSrc("m.mp4"))), Source(Some(BadSrc)),
     Track(Some(RelSrc("t.vtt")))}
Videos ==
    {Video(src, children) :
        src \in {None} \cup {Some(s) : s \in VideoSrcs},
        children \in SeqsUpTo(ChildNodes, MaxChildren)}
\* The nodes around a <video>: text, an image, and other videos.
SiblingNodes ==
    {Paragraph, Img(Some(RelSrc("img"))), Video(None, <<>>),
     Video(None, <<Source(Some(RelSrc("m.mp4")))>>)}

\* Documents of at most MaxNodes top-level nodes: any video among siblings,
\* and the documents made of siblings only.
InsertAt(s, k, v) ==
    [i \in 1..(Len(s) + 1) |-> IF i <= k THEN s[i] ELSE IF i = k + 1 THEN v ELSE s[i - 1]]
Documents ==
    SeqsUpTo(SiblingNodes, MaxNodes)
    \cup UNION {{InsertAt(s, k, v) : v \in Videos, k \in 0..Len(s)} :
                  s \in SeqsUpTo(SiblingNodes, MaxNodes - 1)}

VideoBase == [host |-> <<"medium", "com">>, dir |-> "x", query |-> NoQuery]

\* DomDocument::from(html), as in test_video_tag_conversion (extract.rs:446-473)
VideoInit ==
    /\ document \in {[pc |-> "parsed", page_base_url |-> VideoBase, html |-> d, nodes |-> d] :
                        d \in Documents}
    /\ norm_trace = <<>>
    /\ fs = [q \in {} |-> File(0, "complete")]
    /\ runs = 0
    /\ ep = [p \in Procs |-> IdleEpub]
    /\ proc = IdleProc
    /\ net = IdleNet

\* extractor.convert_video_tags_to_links(&mut document, &base_url)
ConvertVideoTags ==
    /\ document.pc = "parsed"
    /\ document' = [document EXCEPT
                      !.nodes = convert_video_tags_to_links(@, document.page_base_url),
                      !.pc = "converted"]
    /\ UNCHANGED not_document

VideoNext == ConvertVideoTags

SpecVideo == VideoInit /\ [][VideoNext]_vars

\* ------------------------------------------------------------------------
\* download_image_list on a set of image URLs
\* ------------------------------------------------------------------------
\* Content-Type headers of image servers: none, the five families, one that
\* names no family, and one in which two families occur.
ContentTypes ==
    {None} \cup {Some(t) : t \in {"image/jpeg", "image/jpg", "image/png", "image/gif",
                                  "image/svg+xml", "image/webp", "text/html",
                                  "image/gif; name=a.png"}}

ListResponses ==
    {Response(200, ct, TRUE, ErrorPage) : ct \in ContentTypes}
        \cup {Response(404, Some("image/png"), TRUE, ErrorPage)}

\* Image URLs: /x/img, /y/a, a path that ends with "/" after a directory,
\* and the root path "/".
ListUrls ==
    {ImgUrl(<<"en", "m", "wikipedia", "org">>, d, n) :
        <<d, n>> \in {<<"x", "img">>, <<"y", "a">>, <<"y", "">>, <<"", "">>}}

ListInit ==
    /\ norm_trace = <<>>
    /\ fs = [q \in {} |-> File(0, "complete")]
    /\ runs = 0
    /\ ep = [p \in Procs |-> IdleEpub]
    /\ proc \in {[IdleProc EXCEPT !.pc = "download", !.image_urls = S, !.to_download = S] :
                    S \in {T \in SUBSET ListUrls : Cardinality(T) \in 1..MaxList}}
    /\ net = IdleNet
    /\ document = IdleDocument

DownloadListed == DownloadFrom(ListResponses)

ListNext == DownloadListed

SpecList == ListInit /\ [][ListNext]_vars

\* ------------------------------------------------------------------------
\* The author and date chains on pages with <meta> elements
\* ------------------------------------------------------------------------
AuthorContents == {None, Some(""), Some(" "), Some("Bob"), Some(" Al ")}
AuthorMetas ==
    {Meta(sel.attr, sel.key, c) :
        sel \in {author_meta_selectors[k] : k \in 1..Len(author_meta_selectors)}
                  \cup {Selector("name", "viewport")},
        c \in AuthorContents}
LibraryAuthors == {None, Some(""), Some(" "), Some("Ann"), Some(" Ann")}

DateContents ==
    {None, Some(" "), Some("yesterday"), Some("2024-03-01"),
     Some("2024-03-01T10:00:00+02:00"), Some("2024-03-01 10:00:00 +0200")}
DateMetas ==
    {Meta(sel.attr, sel.key, c) :
        sel \in {date_meta_selectors[k] : k \in 1..Len(date_meta_selectors)}
                  \cup {Selector("name", "viewport")},
        c \in DateContents}
LibraryDates == {None, Some(DateTime("2023-01-01", "12:00:00"))}

\* An article without images, with the author and the date the library
\* inferred and the <meta> elements of the page's <head>.
MetaPage(author, date, head) ==
    [Html("article", <<>>, None) EXCEPT !.author = author, !.date = date, !.head = head]

MetaUrl == [host |-> <<"medium", "com">>, dir |-> "x", query |-> NoQuery]

\* process at extract.rs:82, on a page without images that was fetched
\* and parsed
MetaStart(html) ==
    /\ LET pf_url == get_print_friendly_url(MetaUrl) IN
         /\ proc = [IdleProc EXCEPT
                      !.pc = "finish", !.original_url = MetaUrl,
                      !.final_document = document_html(<<>>),
                      !.content = [original_url |-> MetaUrl, url |-> pf_url,
                                   html_string |-> html],
                      !.parsed = html]
         /\ net = [IdleNet EXCEPT
                     !.page = Some([url |-> pf_url,
                                    resp |-> Response(200, Some("text/html"), TRUE, html)]),
                     !.page_sent = 1]
    /\ norm_trace = <<>>
    /\ fs = [q \in {} |-> File(0, "complete")]
    /\ runs = 0
    /\ ep = [p \in Procs |-> IdleEpub]
    /\ document = IdleDocument

\* The pages: any author of the library over a head of fewer than MaxMeta
\* author elements, and a blank one over a head of up to MaxMeta; any date
\* of the library over a head of fewer than MaxMeta date elements, and
\* none over a head of up to MaxMeta.
MetaInit ==
    \/ \E a \in LibraryAuthors, h \in SeqsUpTo(AuthorMetas, MaxMeta - 1) :
         MetaStart(MetaPage(a, None, h))
    \/ \E h \in SeqsUpTo(AuthorMetas, MaxMeta) :
         MetaStart(MetaPage(Some(" "), None, h))
    \/ \E d \in LibraryDates, h \in SeqsUpTo(DateMetas, MaxMeta - 1) :
         MetaStart(MetaPage(None, d, h))
    \/ \E h \in SeqsUpTo(DateMetas, MaxMeta) :
         MetaStart(MetaPage(None, None, h))

MetaNext == FinishProcess

SpecMeta == MetaInit /\ [][MetaNext]_vars

\* ------------------------------------------------------------------------
\* C2: the output path never names an existing file
\* ------------------------------------------------------------------------
\* The path the caller asked for, or the one derived from the title.
RequestedPath(e) ==
    IF IsSome(e.output) THEN e.output[1] ELSE DerivedPath(e.extracted.title)

\* The requested path if no file is there, else "stem (k).ext" for the
\* smallest k >= 1 with no file there.
FreePath(path, dir) ==
    IF path \notin DOMAIN dir THEN path
    ELSE LET free(k) == NewFileName(path.stem, k, path.ext) \notin DOMAIN dir
             k == CHOOSE i \in 1..(Cardinality(DOMAIN dir) + 1) :
                      free(i) /\ \A j \in 1..(i - 1) : ~free(j)
         IN  NewFileName(path.stem, k, path.ext)

\* C2: in any sequence of conversions run one after the other, a step that
\* creates a file creates it at the requested/derived path if that is free,
\* else at "stem (k).ext" for the smallest free k >= 1; no file disappears,
\* and the only file whose content a step changes is the one the running
\* conversion created itself.
C2_NeverOverwrites ==
    [][ /\ \A q \in DOMAIN fs :
             /\ q \in DOMAIN fs'
             /\ fs'[q] # fs[q] => (fs[q].by = ep[1].run /\ q = ep[1].final_path)
        /\ DOMAIN fs' # DOMAIN fs =>
             /\ DOMAIN fs' = DOMAIN fs \cup {FreePath(RequestedPath(ep[1]), fs)}
             /\ FreePath(RequestedPath(ep[1]), fs) \notin DOMAIN fs
      ]_vars

\* C2 witness: the title "t" was converted twice into an empty directory;
\* the first conversion wrote t.epub, the second "t (1).epub", and t.epub
\* still holds what the first wrote.
C2_Witness ==
    /\ runs = 2
    /\ ep[1].pc = "done"
    /\ ep[1].output = None
    /\ ep[1].extracted.title = "t"
    /\ ep[1].final_path = Path("t (1)", "epub")
    /\ DOMAIN fs = {Path("t", "epub"), Path("t (1)", "epub")}
    /\ fs[Path("t", "epub")] = File(1, "complete")
    /\ fs[Path("t (1)", "epub")] = File(2, "complete")

\* ------------------------------------------------------------------------
\* C3: no file at the resolved path after a failure
\* ------------------------------------------------------------------------
\* The steps of create_epub after the output path is resolved.
StepsAfterPath ==
    {"create", "builder", "metadata", "cover_image", "cover_page", "resource",
     "article", "generate"}

\* C3: when create_epub has failed at a step after the output path was
\* resolved, no file exists at the resolved output path.
C3_NoFileLeftOnFailure ==
    \A p \in Procs :
        (ep[p].pc = "failed" /\ ep[p].failed_at \in StepsAfterPath)
            => ep[p].final_path \notin DOMAIN fs

\* ------------------------------------------------------------------------
\* C4: a failed image download is omitted, never fatal
\* ------------------------------------------------------------------------
\* The server answered, with a success status and a readable body.
Served(resp) == resp.kind = "response" /\ IsSuccess(resp.status) /\ resp.readable

\* The stages of process after download_image_list has returned.
AfterDownload ==
    \/ proc.pc \in {"finish", "extracted", "packaging"}
    \/ proc.pc = "download" /\ proc.to_download = {}

\* C4: download_image_list never fails because an image failed: whatever
\* each URL's server answers, process never fails in the download stage, the
\* keys of the mapping are at every moment exactly the URLs requested so far
\* whose download succeeded, and once it has returned every URL of the set
\* was requested.
C4_FailedImagesOmitted ==
    /\ ~(proc.pc = "failed" /\ proc.failed_at = "download")
    /\ DOMAIN proc.image_map = {u \in DOMAIN net.images : Served(net.images[u])}
    /\ AfterDownload => DOMAIN net.images = proc.image_urls

\* C4 witness: download_image_list has returned a mapping with one entry
\* after one URL's download succeeded and another's failed with a 404.
C4_Witness ==
    /\ proc.pc = "finish"
    /\ \E u, v \in proc.image_urls :
         /\ net.images[u].status = 404
         /\ Served(net.images[v])
         /\ DOMAIN proc.image_map = {v}

\* ------------------------------------------------------------------------
\* C5: image references of the final body
\* ------------------------------------------------------------------------
\* C5: when a conversion has succeeded, every <img> of the final body with a
\* (non-data) src has, if the original src resolved against the effective URL
\* is a key of the image mapping, that entry's local path as its src, and the
\* path was registered in the container; otherwise it has the original src
\* and the container has no entry for that URL. Every src that is a local
\* path was registered in the container.
C5_ImageReferences ==
    ep[1].pc = "done" =>
        LET base == proc.content.url
            map == ep[1].extracted.image_map
            body == proc.parsed.imgs \o proc.parsed.videos
            final == ep[1].extracted.content
            written == {r.path : r \in ep[1].registered}
        IN  /\ Len(final) = Len(body)
            /\ \A i \in 1..Len(final) :
                 (final[i].tag = "img" /\ IsSome(final[i].src)) =>
                    LET abs == Join(base, body[i].src[1]) IN
                    IF IsSome(abs) /\ abs[1] \in DOMAIN map
                    THEN /\ final[i].src = Some(LocalSrc(map[abs[1]].local_path))
                         /\ map[abs[1]].local_path \in written
                    ELSE /\ final[i].src = body[i].src
                         /\ IsSome(abs) => \A r \in ep[1].registered : r.url # abs[1]
            /\ \A i \in 1..Len(final) :
                 (final[i].tag = "img" /\ IsSome(final[i].src)
                    /\ final[i].src[1].kind = "local")
                    => final[i].src[1].name \in written

\* C5 witness: a conversion succeeded whose body has one image that was
\* downloaded and rewritten and one whose download failed and whose src is
\* the original one.
C5_Witness ==
    /\ ep[1].pc = "done"
    /\ Len(ep[1].extracted.content) = 2
    /\ ep[1].extracted.content[1].src = Some(LocalSrc("images/img.png"))
    /\ ep[1].extracted.content[2].src = Some(RootedSrc("y", "img"))
    /\ \E u \in DOMAIN net.images : ~Served(net.images[u])

\* ------------------------------------------------------------------------
\* C6: a failed page fetch is fatal
\* ------------------------------------------------------------------------
\* C6: when the page's server did not answer (transport error) or answered
\* with a non-success status, process has returned an error from the fetch.
C6_PageFetchFailureIsFatal ==
    (IsSome(net.page) /\ (\/ net.page[1].resp.kind = "transport_err"
                          \/ ~IsSuccess(net.page[1].resp.status)))
        => (proc.pc = "failed" /\ proc.failed_at = "fetch")

\* ------------------------------------------------------------------------
\* C7: one mapping entry per distinct absolute image URL
\* ------------------------------------------------------------------------
\* The distinct absolute URLs the <img> elements of the body resolve to.
BodyImageUrls ==
    {Join(proc.content.url, proc.parsed.imgs[i].src[1])[1] :
        i \in {j \in 1..Len(proc.parsed.imgs) :
                 /\ IsSome(proc.parsed.imgs[j].src)
                 /\ ~IsDataUri(proc.parsed.imgs[j].src[1])
                 /\ IsSome(Join(proc.content.url, proc.parsed.imgs[j].src[1]))}}

\* process has returned its ExtractedContent and every download succeeded.
AllDownloadsSucceeded ==
    /\ proc.pc = "extracted"
    /\ \A u \in DOMAIN net.images : Served(net.images[u])

\* C7 as stated: after a fully successful download phase the mapping of the
\* ExtractedContent has exactly N entries, the N distinct absolute URLs the
\* <img> references of the body resolve to.
C7_ExactlyBodyImages ==
    AllDownloadsSucceeded =>
        /\ DOMAIN proc.result.image_map = BodyImageUrls
        /\ Cardinality(DOMAIN proc.result.image_map) = Cardinality(BodyImageUrls)

\* C7 amended: after a fully successful download phase the keys of the
\* mapping are the N distinct absolute URLs the <img> references resolve to,
\* plus the resolved thumbnail URL: N entries when no thumbnail was resolved
\* or it is one of the N, N + 1 otherwise; several spellings of one absolute
\* URL yield one entry.
C7_BodyImagesAndThumbnail ==
    AllDownloadsSucceeded =>
        LET keys == DOMAIN proc.result.image_map
            thumb == proc.result.original_thumbnail_url
        IN  /\ keys = BodyImageUrls \cup {thumb[i] : i \in 1..Len(thumb)}
            /\ Cardinality(keys) =
                 IF IsSome(thumb) /\ thumb[1] \notin BodyImageUrls
                 THEN Cardinality(BodyImageUrls) + 1
                 ELSE Cardinality(BodyImageUrls)

\* C7 witness: two spellings of one absolute URL in the body and a
\* thumbnail elsewhere, all downloaded: two entries.
C7_Witness ==
    /\ AllDownloadsSucceeded
    /\ Len(proc.parsed.imgs) = 2
    /\ proc.parsed.imgs[1].src = Some(RelSrc("img"))
    /\ proc.parsed.imgs[2].src = Some(RootedSrc("x", "img"))
    /\ Cardinality(BodyImageUrls) = 1
    /\ IsSome(proc.thumb) /\ proc.thumb[1] \notin BodyImageUrls
    /\ Cardinality(DOMAIN proc.result.image_map) = 2

\* ------------------------------------------------------------------------
\* C8: every asset is registered exactly once
\* ------------------------------------------------------------------------
\* C8: when create_epub has succeeded, every asset of the mapping has
\* exactly one registration, as the cover image if it is the thumbnail's
\* asset and as a resource otherwise, and no local path is registered twice.
C8_EachAssetRegisteredOnce ==
    ep[1].pc = "done" =>
        LET x == ep[1].extracted
            reg == ep[1].registered
        IN  /\ \A u \in DOMAIN x.image_map :
                 /\ Cardinality({r \in reg : r.url = u}) = 1
                 /\ \A r \in reg :
                      r.url = u => (r.role = "cover" <=> x.original_thumbnail_url = Some(u))
            /\ \A r1, r2 \in reg : r1.path = r2.path => r1 = r2

\* ------------------------------------------------------------------------
\* C9: the cover image and the cover page
\* ------------------------------------------------------------------------
\* C9: once create_epub is past the cover-image step, a cover image is set
\* if and only if process resolved a thumbnail URL and its asset is in the
\* mapping; create_epub never fails at the cover-image step when the asset is
\* missing; and a successful run has added the cover page document.
C9_CoverImageIffAsset ==
    LET has_asset == IsSome(proc.thumb) /\ proc.thumb[1] \in DOMAIN proc.image_map IN
    /\ ep[1].pc \in {"cover_page", "resources", "generate", "done"} =>
         /\ IsSome(ep[1].cover) <=> has_asset
         /\ has_asset => ep[1].cover = Some(proc.image_map[proc.thumb[1]].local_path)
    /\ (ep[1].pc = "failed" /\ ep[1].failed_at = "cover_image") => has_asset
    /\ ep[1].pc = "done" => "cover.xhtml" \in ep[1].docs

\* C9 witness: create_epub succeeded, with the cover page and no cover
\* image, on a thumbnail whose download had failed.
C9_Witness ==
    /\ ep[1].pc = "done"
    /\ IsSome(proc.thumb)
    /\ proc.thumb[1] \notin DOMAIN proc.image_map
    /\ ep[1].cover = None
    /\ "cover.xhtml" \in ep[1].docs

\* ------------------------------------------------------------------------
\* C1: idempotence of the normaliser
\* ------------------------------------------------------------------------
\* A host one of the four rules is written for.
SupportedHost(host) ==
    \/ HostContains(host, "wikipedia", "org")
    \/ HostContains(host, "medium", "com")
    \/ HostContains(host, "nytimes", "com")
    \/ HostContains(host, "washingtonpost", "com")

\* wikipedia.org preceded by at least one label (en.wikipedia.org,
\* fr.wikipedia.org, fr.m.wikipedia.org): a subdomain of wikipedia.org.
WikipediaSubdomain(host) ==
    \E i \in 2..(Len(host) - 1) : host[i] = "wikipedia" /\ host[i + 1] = "org"

\* A host the medium.com rule handles (the wikipedia rule comes first).
MediumRuleHost(host) ==
    ~HostContains(host, "wikipedia", "org") /\ HostContains(host, "medium", "com")

\* C1 as stated: for every supported host (wikipedia.org, medium.com,
\* nytimes.com, washingtonpost.com), with or without a query string,
\* normalize(normalize(u)) = normalize(u).
C1_IdempotentOnSupportedHosts ==
    (Len(norm_trace) >= 3 /\ SupportedHost(norm_trace[1].host))
        => norm_trace[3] = norm_trace[2]

\* C1 amended: normalize(normalize(u)) = normalize(u) for every URL whose
\* host is a subdomain of wikipedia.org or is handled by the medium.com rule,
\* with or without a query string; and on a nytimes.com or
\* washingtonpost.com host (not a wikipedia.org or medium.com one) the second
\* application is never the identity: it appends one more print=true.
C1_IdempotentWikipediaMedium ==
    Len(norm_trace) >= 3 =>
        LET u == norm_trace[1] IN
        /\ (WikipediaSubdomain(u.host) \/ MediumRuleHost(u.host))
                => norm_trace[3] = norm_trace[2]
        /\ (/\ ~HostContains(u.host, "wikipedia", "org")
            /\ ~HostContains(u.host, "medium", "com")
            /\ SupportedHost(u.host))
                => norm_trace[3] = [norm_trace[2] EXCEPT
                                        !.query = Append(@, "print=true")]

\* C1 witness: a non-mobile, non-English wikipedia host with a query string
\* was rewritten by the first application and left alone by the second.
C1_Witness ==
    /\ Len(norm_trace) >= 3
    /\ norm_trace[1].host = <<"fr", "wikipedia", "org">>
    /\ norm_trace[1].query = <<"a=1">>
    /\ norm_trace[2].host = <<"fr", "m", "wikipedia", "org">>
    /\ norm_trace[3] = norm_trace[2]

\* ------------------------------------------------------------------------
\* C10: every <video> becomes a link, or the placeholder
\* ------------------------------------------------------------------------
\* The child <source> elements of a video, in document order.
SourcesOf(v) == SelectSeq(v.children, LAMBDA c : c.tag = "source")
\* The positions of the children that are a <source> with a src.
SourcesWithSrc(v) ==
    {j \in 1..Len(v.children) : v.children[j].tag = "source" /\ IsSome(v.children[j].src)}
\* An absolute URL, as opposed to the string of a src attribute.
IsAbsoluteUrl(x) == DOMAIN x = {"host", "dir", "name"}
\* The node is the paragraph with one link whose href and text are x.
IsLinkTo(node, x) ==
    /\ node.tag = "p"
    /\ DOMAIN node = {"tag", "src", "a"}
    /\ node.a.href = x
    /\ node.a.text = <<"Watch Video: ", x>>
NoVideoRemains == \A i \in 1..Len(document.nodes) : document.nodes[i].tag # "video"

\* C10 as stated: after the conversion, every <video> whose target (its own
\* src if present, else the src of its first child <source>) exists has
\* been replaced by a paragraph with a link whose href and text are the
\* target resolved to an absolute URL; a video without a target has been
\* replaced by the placeholder paragraph; no <video> remains.
C10_FirstSourceAbsoluteLink ==
    document.pc = "converted" =>
        /\ Len(document.nodes) = Len(document.html)
        /\ NoVideoRemains
        /\ \A i \in 1..Len(document.html) :
             LET v == document.html[i]
                 node == document.nodes[i]
             IN  v.tag = "video" =>
                    LET target == IF IsSome(v.src) THEN v.src
                                  ELSE IF SourcesOf(v) # <<>> THEN SourcesOf(v)[1].src
                                  ELSE None
                    IN  IF IsSome(target)
                        THEN /\ IsSome(Join(document.page_base_url, target[1]))
                             /\ IsLinkTo(node, Join(document.page_base_url, target[1])[1])
                             /\ IsAbsoluteUrl(node.a.href)
                        ELSE node = VideoPlaceholder

\* C10 amended: after the conversion, every <video> has been replaced by one
\* paragraph and the other nodes are unchanged, so no <video> remains. The
\* target is the video's own src if it has one, else the src of the first
\* child <source> that has a src. With a target, the paragraph holds a link
\* whose href and text are both the target resolved against the page URL,
\* or both the target as written when it cannot be resolved. Without a
\* target the paragraph is the placeholder.
C10_FirstSourceWithSrc ==
    document.pc = "converted" =>
        /\ Len(document.nodes) = Len(document.html)
        /\ NoVideoRemains
        /\ \A i \in 1..Len(document.html) :
             LET v == document.html[i]
                 node == document.nodes[i]
             IN  IF v.tag # "video" THEN node = v
                 ELSE LET with_src == SourcesWithSrc(v)
                          first == CHOOSE j \in with_src : \A k \in with_src : j <= k
                          target == IF IsSome(v.src) THEN v.src
                                    ELSE IF with_src # {} THEN v.children[first].src
                                    ELSE None
                      IN  IF ~IsSome(target) THEN node = VideoPlaceholder
                          ELSE LET abs == Join(document.page_base_url, target[1])
                               IN  IF IsSome(abs)
                                   THEN IsLinkTo(node, abs[1]) /\ IsAbsoluteUrl(node.a.href)
                                   ELSE IsLinkTo(node, target[1])

\* C10 witness: a converted document with two videos: one without a src
\* whose first <source> has no src and whose second one has, now a link to
\* the second one's URL, and one without any source, now the placeholder.
C10_Witness ==
    /\ document.pc = "converted"
    /\ \E i, j \in 1..Len(document.html) :
         /\ document.html[i] = Video(None, <<Source(None), Source(Some(RelSrc("m.mp4")))>>)
         /\ document.nodes[i] = VideoLink(ImgUrl(<<"medium", "com">>, "x", "m.mp4"))
         /\ document.html[j] = Video(None, <<>>)
         /\ document.nodes[j] = VideoPlaceholder

\* ------------------------------------------------------------------------
\* C11: the author chain
\* ------------------------------------------------------------------------
\* The library's author counts when it is non-empty after trimming.
LibraryAuthorCounts(parsed) == IsSome(parsed.author) /\ Trim(parsed.author[1]) # ""
\* The element has a content attribute that is non-empty after trimming.
HasContent(el) == IsSome(el.content) /\ Trim(el.content[1]) # ""
\* The positions in the head of the elements that match the k-th selector.
Matches(head, selectors, k) ==
    {i \in 1..Len(head) : head[i].attr = selectors[k].attr /\ head[i].key = selectors[k].key}
Least(S) == CHOOSE i \in S : \A j \in S : i <= j

\* C11 as stated: the library's author wins when it is non-empty after
\* trimming; otherwise the author is the first non-empty content among the
\* elements matching the selectors, taken selector by selector in the
\* stated order and, for one selector, in document order; when there is
\* none, the author is "http-epub".
C11_FirstNonEmptyContent ==
    proc.pc = "extracted" =>
        LET parsed == proc.parsed
            head == parsed.head
            sels == author_meta_selectors
            hits(k) == {i \in Matches(head, sels, k) : HasContent(head[i])}
            ks == {k \in 1..Len(sels) : hits(k) # {}}
        IN  proc.result.article_author =
                IF LibraryAuthorCounts(parsed) THEN parsed.author[1]
                ELSE IF ks = {} THEN "http-epub"
                ELSE head[Least(hits(Least(ks)))].content[1]

\* C11 amended: the library's author wins, as it is written, when it is
\* non-empty after trimming; otherwise each selector, in the stated order,
\* is represented by the first element that matches it, and the author is
\* the content, as it is written, of the first such element whose content
\* is non-empty after trimming (a later element of the same selector is
\* never looked at); when there is none, the author is "http-epub".
C11_FirstElementPerSelector ==
    proc.pc = "extracted" =>
        LET parsed == proc.parsed
            head == parsed.head
            sels == author_meta_selectors
            ks == {k \in 1..Len(sels) :
                     /\ Matches(head, sels, k) # {}
                     /\ HasContent(head[Least(Matches(head, sels, k))])}
        IN  proc.result.article_author =
                IF LibraryAuthorCounts(parsed) THEN parsed.author[1]
                ELSE IF ks = {} THEN "http-epub"
                ELSE head[Least(Matches(head, sels, Least(ks)))].content[1]

\* C11 witness: the library's author is blank, the first author element is
\* blank too, and the author is the content of the article:author element.
C11_Witness ==
    /\ proc.pc = "extracted"
    /\ proc.parsed.author = Some(" ")
    /\ proc.parsed.head = <<Meta("name", "author", Some("")),
                            Meta("property", "article:author", Some(" Al "))>>
    /\ proc.result.article_author = " Al "

\* ------------------------------------------------------------------------
\* C12: the date chain
\* ------------------------------------------------------------------------
\* What the date parsers make of a content: the instant of an RFC 3339
\* value, the wall-clock time of a value with time and offset, midnight for
\* a date, None otherwise.
ParsedDate(c) ==
    CASE c = "2024-03-01T10:00:00+02:00" -> Some(DateTime("2024-03-01", "08:00:00"))
      [] c = "2024-03-01 10:00:00 +0200" -> Some(DateTime("2024-03-01", "10:00:00"))
      [] c = "2024-03-01"                -> Some(DateTime("2024-03-01", "00:00:00"))
      [] OTHER                           -> None

\* C12 as stated: the library's date wins; otherwise the date is what the
\* parsers make of the content of the first element with a non-empty
\* content among the first elements of the selectors article:published_time,
\* publish-date, date, in that order: absent when no pattern parses that
\* content, and absent when there is no such element.
C12_FirstContentDecides ==
    proc.pc = "extracted" =>
        LET parsed == proc.parsed
            head == parsed.head
            sels == date_meta_selectors
            ks == {k \in 1..Len(sels) :
                     /\ Matches(head, sels, k) # {}
                     /\ HasContent(head[Least(Matches(head, sels, k))])}
        IN  proc.result.date_published =
                IF IsSome(parsed.date) THEN parsed.date
                ELSE IF ks = {} THEN None
                ELSE ParsedDate(head[Least(Matches(head, sels, Least(ks)))].content[1])

\* C12 amended: the library's date wins; otherwise each selector, in the
\* stated order, is represented by the first element that matches it, and
\* the date is what the parsers make of the first such content that is
\* non-empty after trimming and that some pattern parses (a content that
\* no pattern parses is passed over); a date-only value gives midnight
\* UTC; when no selector gives a parsed date the date is absent, and
\* process does not fail.
C12_FirstParsedContent ==
    proc.pc = "extracted" =>
        LET parsed == proc.parsed
            head == parsed.head
            sels == date_meta_selectors
            ks == {k \in 1..Len(sels) :
                     /\ Matches(head, sels, k) # {}
                     /\ HasContent(head[Least(Matches(head, sels, k))])
                     /\ IsSome(ParsedDate(head[Least(Matches(head, sels, k))].content[1]))}
        IN  /\ proc.failed_at = ""
            /\ proc.result.date_published =
                IF IsSome(parsed.date) THEN parsed.date
                ELSE IF ks = {} THEN None
                ELSE ParsedDate(head[Least(Matches(head, sels, Least(ks)))].content[1])

\* C12 witness: no date from the library, a first date element that no
\* pattern parses and a date-only second one: the date is midnight of it.
C12_Witness ==
    /\ proc.pc = "extracted"
    /\ proc.parsed.date = None
    /\ proc.parsed.head = <<Meta("property", "article:published_time", Some("yesterday")),
                            Meta("name", "date", Some("2024-03-01"))>>
    /\ proc.result.date_published = Some(DateTime("2024-03-01", "00:00:00"))

\* ------------------------------------------------------------------------
\* C13: the stages of one conversion
\* ------------------------------------------------------------------------
Stages == <<"fetch", "parse", "images", "download", "finish", "extracted", "packaging">>
Rank(pc) == CHOOSE k \in 1..Len(Stages) : Stages[k] = pc
\* Every URL of the download set has been requested and answered.
DownloadsFinished ==
    /\ proc.to_download = {}
    /\ proc.image_urls \subseteq DOMAIN net.images

\* C13: in every step of a conversion, process moves to the next stage of
\* the order fetch, extraction, image-URL discovery, downloads, rewrite,
\* result, packaging, or fails; extraction starts only on a fetched page,
\* discovery only on an extracted article; the rewrite happens only when
\* every URL of the download set has been requested and answered; and from
\* the rewrite on no step changes the image mapping, which create_epub
\* holds unchanged.
C13_StagesInOrder ==
    [][/\ (proc'.pc # proc.pc /\ proc'.pc # "failed")
            => Rank(proc'.pc) = Rank(proc.pc) + 1
       /\ (proc.pc = "parse" /\ proc'.pc = "images")
            => (IsSome(net.page) /\ proc.content.html_string = net.page[1].resp.html)
       /\ (proc.pc = "images" /\ proc'.pc = "download")
            => (proc.parsed = proc.content.html_string /\ proc.parsed.kind = "article")
       /\ proc'.final_body # proc.final_body => DownloadsFinished
       /\ (proc.pc = "download" /\ proc'.pc = "finish") => DownloadsFinished
       /\ proc.pc \in {"finish", "extracted", "packaging"}
            => /\ proc'.image_map = proc.image_map
               /\ net'.images = net.images
       /\ ep'[1].pc \notin {"idle"} => ep'[1].extracted.image_map = proc'.image_map
      ]_vars

\* C13 witness: a conversion was packaged whose body was rewritten after two
\* downloads, one that succeeded and one that failed.
C13_Witness ==
    /\ ep[1].pc = "done"
    /\ Cardinality(proc.image_urls) = 2
    /\ Cardinality(DOMAIN proc.image_map) = 1
    /\ \E i \in 1..Len(proc.final_body) :
         /\ proc.final_body[i].tag = "img"
         /\ IsSome(proc.final_body[i].src)
         /\ proc.final_body[i].src[1].kind = "local"

\* ------------------------------------------------------------------------
\* C14: the order of the steps of the body transformation
\* ------------------------------------------------------------------------
\* The position of a step in the steps that were run (0: it was not run).
StepAt(name) ==
    IF \E k \in 1..Len(proc.steps) : proc.steps[k] = name
    THEN CHOOSE k \in 1..Len(proc.steps) : proc.steps[k] = name
    ELSE 0
BodyTransformed == proc.pc \in {"finish", "extracted", "packaging"}
\* The body's video whose own src is a data: URI and that has a <source>.
DataVideo == Video(Some(DataSrc), <<Source(None), Source(Some(RelSrc("m.mp4")))>>)

\* C14 as stated: once the body is transformed, the steps were run in the
\* order video downgrade, sanitization, entity normalization, trim, image
\* rewrite; so a video whose src is a data: URI became a link to that URI,
\* whose href the sanitization then stripped.
C14_VideoBeforeSanitize ==
    BodyTransformed =>
        /\ proc.steps = <<"video", "sanitize", "entities", "trim", "image_rewrite">>
        /\ \A i \in 1..Len(proc.parsed.videos) :
             proc.parsed.videos[i] = DataVideo =>
                proc.final_body[Len(proc.parsed.imgs) + i]
                    = [VideoLink(DataUrl) EXCEPT !.a.href = None]

\* C14 amended: once the body is transformed, the steps were run in the
\* order sanitization, entity normalization, trim, video downgrade, image
\* rewrite; so a video whose src is a data: URI lost that src to the
\* sanitization before it was converted, and became a link to its first
\* <source> with a src; and the markup that replaced it was not sanitized.
C14_SanitizeBeforeVideo ==
    BodyTransformed =>
        /\ StepAt("sanitize") = 1
        /\ StepAt("sanitize") < StepAt("entities")
        /\ StepAt("entities") < StepAt("trim")
        /\ StepAt("trim") < StepAt("video")
        /\ StepAt("video") < StepAt("image_rewrite")
        /\ StepAt("image_rewrite") = Len(proc.steps)
        /\ \A i \in 1..Len(proc.parsed.videos) :
             proc.parsed.videos[i] = DataVideo =>
                proc.final_body[Len(proc.parsed.imgs) + i]
                    = VideoLink(Join(proc.content.url, RelSrc("m.mp4"))[1])

\* C14 witness: a body with an image that was rewritten and the video
\* whose src is a data: URI, now a link to its <source>.
C14_Witness ==
    /\ BodyTransformed
    /\ Len(proc.final_body) = 2
    /\ proc.parsed.videos = <<DataVideo>>
    /\ proc.final_body[1].tag = "img"
    /\ IsSome(proc.final_body[1].src)
    /\ proc.final_body[1].src[1].kind = "local"
    /\ proc.final_body[2] = VideoLink(ImgUrl(<<"en", "m", "wikipedia", "org">>, "x", "m.mp4"))

\* ------------------------------------------------------------------------
\* C15: no request is sent twice
\* ------------------------------------------------------------------------
\* C15: at every moment of a conversion the page has been requested at
\* most once, and exactly once as soon as the fetch stage is over, at the
\* normalised URL; every image URL that was requested is one of the
\* download set and was requested exactly once, whether it was answered
\* with an image or not; and once the downloads are over every URL of the
\* download set, the thumbnail included, was requested.
C15_EachUrlRequestedOnce ==
    /\ net.page_sent = (IF proc.pc = "fetch" THEN 0 ELSE 1)
    /\ IsSome(net.page) => net.page[1].url = get_print_friendly_url(proc.original_url)
    /\ DOMAIN net.img_sent \subseteq proc.image_urls
    /\ DOMAIN net.img_sent = DOMAIN net.images
    /\ \A u \in DOMAIN net.img_sent : net.img_sent[u] = 1
    /\ AfterDownload => DOMAIN net.img_sent = proc.image_urls

\* C15 witness: the downloads are over; the thumbnail is also an image of
\* the body and was requested once, and another image, whose request
\* failed, was requested once too.
C15_Witness ==
    /\ AfterDownload
    /\ IsSome(proc.thumb)
    /\ proc.thumb[1] \in BodyImageUrls
    /\ net.img_sent[proc.thumb[1]] = 1
    /\ \E v \in proc.image_urls :
         /\ v # proc.thumb[1]
         /\ ~Served(net.images[v])
         /\ net.img_sent[v] = 1

\* ------------------------------------------------------------------------
\* C16: no HTML for the page is fatal, before any download
\* ------------------------------------------------------------------------
\* fetch_content returns Err: the server did not answer, or the body could
\* not be read as text.
PageFetchFailed ==
    /\ IsSome(net.page)
    /\ \/ net.page[1].resp.kind = "transport_err"
       \/ ~net.page[1].resp.readable

\* The page was fetched and the readability service gave no HTML for it:
\* parse_offline failed, or the article it returned has no html.
NoArticleHtml ==
    /\ IsSome(net.page)
    /\ ~PageFetchFailed
    /\ net.page[1].resp.html.kind \in {"unparseable", "no_article"}

\* The files of the directory are the ones that were there before the
\* conversion, untouched.
NoOutputFile == \A q \in DOMAIN fs : fs[q] = File(0, "complete")

RuleChain ==
    << [rule |-> "wikipedia", patterns |-> {<<"wikipedia", "org">>}],
       [rule |-> "medium",    patterns |-> {<<"medium", "com">>}],
       [rule |-> "news",      patterns |-> {<<"nytimes", "com">>,
                                            <<"washingtonpost", "com">>}] >>

\* The host contains one of the patterns of the k-th rule.
RuleMatches(k, host) ==
    \E pat \in RuleChain[k].patterns :
        \E i \in 1..(Len(host) - 1) : <<host[i], host[i + 1]>> = pat

\* The first rule of the chain whose pattern the host contains; "none" when
\* there is none.
FirstRule(host) ==
    IF \E k \in 1..Len(RuleChain) : RuleMatches(k, host)
    THEN RuleChain[Least({k \in 1..Len(RuleChain) : RuleMatches(k, host)})].rule
    ELSE "none"

\* The mobile marker the wikipedia rule looks for: ".m.", a label m that is
\* neither the first nor the last label of the host.
MobileMarkerPresent(host) ==
    \E i \in 1..Len(host) : host[i] = "m" /\ i > 1 /\ i < Len(host)

MimeFamilies ==
    << [needles |-> {"jpeg", "jpg"}, mime |-> "image/jpeg", ext |-> "jpg"],
       [needles |-> {"png"},         mime |-> "image/png", ext |-> "png"],
       [needles |-> {"gif"},         mime |-> "image/gif", ext |-> "gif"],
       [needles |-> {"svg"},         mime |-> "image/svg+xml", ext |-> "svg"],
       [needles |-> {"webp"},        mime |-> "image/webp", ext |-> "webp"] >>

\* The families of which the header contains a needle.
FamiliesIn(header) ==
    {k \in 1..Len(MimeFamilies) :
        IsSome(header) /\ \E n \in MimeFamilies[k].needles : CtContains(header[1], n)}

\* The first family that matches the header; the first of all, image/jpeg,
\* when the header is absent or matches none.
FamilyOf(header) ==
    IF FamiliesIn(header) = {} THEN MimeFamilies[1]
    ELSE MimeFamilies[Least(FamiliesIn(header))]

\* The path segments of an image URL, as url.path_segments() yields them.
PathSegments(url) == IF url.dir = "" THEN <<url.name>> ELSE <<url.dir, url.name>>

\* The names Uuid::new_v4() gave in this call.
IsToken(name) == \E k \in 1..(MaxList + 1) : name = "uuid" \o ToString(k)

\* The entries of the map whose name is a token carry different tokens.
TokensAreFresh ==
    \A u, w \in DOMAIN proc.image_map :
        (u # w /\ u.name = "" /\ w.name = "")
            => proc.image_map[u].local_path # proc.image_map[w].local_path

\* C18 as stated: the MIME type of every downloaded image is the one of the
\* first family its Content-Type matches, image/jpeg without a match or a
\* header; its local path is images/<name>.<ext>, ext the extension of that
\* type and name the last non-empty path segment of the URL, or a fresh
\* token when no segment is non-empty.
C18_LastNonEmptySegment ==
    /\ TokensAreFresh
    /\ \A u \in DOMAIN proc.image_map :
         LET family == FamilyOf(net.images[u].content_type)
             segs == PathSegments(u)
             filled == {i \in 1..Len(segs) : segs[i] # ""}
         IN  /\ proc.image_map[u].mime_type = family.mime
             /\ \E name \in {segs[i] : i \in filled} \cup {"uuid" \o ToString(k) : k \in 1..(MaxList + 1)} :
                  /\ proc.image_map[u].local_path = "images/" \o name \o "." \o family.ext
                  /\ IF filled # {}
                     THEN name = segs[CHOOSE i \in filled : \A j \in filled : j <= i]
                     ELSE IsToken(name)

\* C18 amended: the MIME type of every downloaded image is the one of the
\* first family its Content-Type matches, image/jpeg without a match or a
\* header; its local path is images/<name>.<ext>, ext the extension of that
\* type and name the last path segment of the URL when that segment is not
\* empty; when the last segment is empty (the path ends with "/"), name is
\* a fresh token, whatever the segments before it.
C18_LastSegmentOrToken ==
    /\ TokensAreFresh
    /\ \A u \in DOMAIN proc.image_map :
         LET family == FamilyOf(net.images[u].content_type)
             segs == PathSegments(u)
             last == segs[Len(segs)]
         IN  /\ proc.image_map[u].mime_type = family.mime
             /\ \E name \in {last} \cup {"uuid" \o ToString(k) : k \in 1..(MaxList + 1)} :
                  /\ proc.image_map[u].local_path = "images/" \o name \o "." \o family.ext
                  /\ IF last # "" THEN name = last ELSE IsToken(name)

\* C18 witness: two images were downloaded; one, at /y/, was served as
\* "image/gif; name=a.png" and is kept as a PNG under a token; the other,
\* at the root path, came without Content-Type and is kept as a JPEG under
\* another token.
C18_Witness ==
    LET dir_url == ImgUrl(<<"en", "m", "wikipedia", "org">>, "y", "")
        root_url == ImgUrl(<<"en", "m", "wikipedia", "org">>, "", "")
    IN  /\ proc.to_download = {}
        /\ DOMAIN proc.image_map = {dir_url, root_url}
        /\ net.images[dir_url].content_type = Some("image/gif; name=a.png")
        /\ proc.image_map[dir_url] = DownloadedImage("images/uuid1.png", "image/png")
        /\ net.images[root_url].content_type = None
        /\ proc.image_map[root_url] = DownloadedImage("images/uuid2.jpg", "image/jpeg")

\* ------------------------------------------------------------------------
\* C19: the final body holds allow-listed markup only
\* ------------------------------------------------------------------------
RECURSIVE TagsOf(_)
\* The tags of the elements of a serialized tree: the element's own, those
\* of the link or emphasis a replacement paragraph holds, and those of its
\* children.
TagsOf(el) ==
    {el.tag}
        \cup (IF "a" \in DOMAIN el THEN {"a"} ELSE {})
        \cup (IF "em" \in DOMAIN el THEN {"em"} ELSE {})
        \cup (IF "children" \in DOMAIN el
              THEN UNION {TagsOf(el.children[i]) : i \in 1..Len(el.children)}
              ELSE {})

RECURSIVE AttributesAllowed(_)
\* Every attribute in the tree is one the allow-list gives to its tag: href
\* and title on <a>, src on <img>, <video> and <source>.
AttributesAllowed(el) ==
    /\ ("a" \in DOMAIN el) => (DOMAIN el.a \ {"text"}) \subseteq {"href", "title"}
    /\ ("src" \in DOMAIN el /\ IsSome(el.src)) => el.tag \in {"img", "video", "source"}
    /\ ("children" \in DOMAIN el) =>
            \A i \in 1..Len(el.children) : AttributesAllowed(el.children[i])

\* C19: once the body is transformed, every element of the final body, the
\* string cleaned_document.html() that goes into the article template, has a
\* tag of the sanitizer's allow-list and only attributes the allow-list
\* gives to that tag.
C19_OnlyAllowListedMarkup ==
    proc.pc \in {"finish", "extracted", "packaging"} =>
        /\ TagsOf(proc.final_document) \subseteq AllowedTags
        /\ AttributesAllowed(proc.final_document)

\* ------------------------------------------------------------------------
\* C20: two concurrent conversions write two distinct files
\* ------------------------------------------------------------------------
\* Invocation p has left the path resolution: final_path is the path it
\* creates, or has created, its file at.
PathResolved(p) ==
    \/ ep[p].pc \in StepsAfterPath \cup {"done"}
    \/ ep[p].pc = "failed" /\ ep[p].failed_at \in StepsAfterPath

\* File::create has returned Ok for invocation p.
FileCreated(p) ==
    \/ ep[p].pc \in (StepsAfterPath \ {"create"}) \cup {"done"}
    \/ ep[p].pc = "failed" /\ ep[p].failed_at \in StepsAfterPath \ {"create"}

\* C20: of two invocations of create_epub that run at the same time with
\* the same requested or derived path, in every interleaving of their
\* steps, no two resolve to the same output path, and the file one of them
\* has created stays its own: the other neither truncates nor rewrites it.
C20_ConcurrentRunsDistinctFiles ==
    /\ \A p, q \in Procs :
         (p # q /\ PathResolved(p) /\ PathResolved(q))
            => ep[p].final_path # ep[q].final_path
    /\ \A p \in Procs :
         FileCreated(p) =>
            /\ ep[p].final_path \in DOMAIN fs
            /\ fs[ep[p].final_path].by = ep[p].run

\* C20 race: both invocations returned Ok with the same path; the file
\* there is the one the second wrote.
C20_Witness ==
    /\ ep[1].pc = "done"
    /\ ep[2].pc = "done"
    /\ ep[1].final_path = ep[2].final_path
    /\ fs[ep[1].final_path] = File(2, "complete")

====
